---- MODULE Spec2Model ----
\* A model of bsl::allocator<T> (bslstl_allocator.h), the STL-compatible proxy
\* for bslma::Allocator mechanism objects, together with the counting
\* mechanism of the component's usage example and the default-mechanism
\* registry (bslma::Default) the proxy consults at construction.
EXTENDS Integers, Sequences, FiniteSets, TLC

\* ---------------------------------------------------------------- bounds
MaxN == 2           \* largest element count passed to allocate
MaxThrows == 1      \* allocation failures (std::bad_alloc) in one run
Width == 3          \* bits in std::size_t

\* ------------------------------------------------------------ vocabulary
NULL == "null"                  \* the null bslma::Allocator pointer

Mechs == {"M1", "M2"}           \* the mechanism objects of the process
Slots == {"p1", "p2"}           \* storage for proxy objects
NoSlot == "none"
Addrs == {1, 2}                 \* addresses operator new can return
Counts == 0 .. MaxN
Hints == {0, 1}                 \* the null hint and some other one
DeallocCounts == {1, 2}         \* 1 is the default argument
Values == {"v"}
NoObj == "none"

ElemTypes == {"char", "int", "void"}

sizeof(T) == IF T = "int" THEN 4 ELSE 1

SizeMod == 2 ^ Width

VARIABLES
    d_defaultAllocator,   \* bslma::Default: the currently installed default
    proxies,              \* slot -> [live, T, d_mechanism]
    d_blocksOutstanding,  \* mechanism -> my_CountingAllocator::d_blocksOutstanding
    heap,                 \* blocks obtained from operator new and not yet
                          \* deleted, each with the mechanism that issued it
    objects,              \* address -> value of the object constructed there
    throws,               \* number of std::bad_alloc thrown so far
    disturbed,            \* mechanisms that saw a failed allocation, or that
                          \* issued or received a block released to another
    sizeIsSigned,         \* platform: bslma::Allocator::size_type is signed
    last,                 \* the operation just performed and what it did
    query,                \* a call of a const member function (max_size,
                          \* address) or of the size arithmetic of allocate:
                          \* its inputs and, once made, its result
    threads               \* thread -> where it stands in a call it makes
                          \* through its own proxy, and its locals

vars == <<d_defaultAllocator, proxies, d_blocksOutstanding, heap, objects,
          throws, disturbed, sizeIsSigned, last, query, threads>>

\* no member function is being queried, and the program has one thread
NoQuery == [fn |-> "none"]

NoThreads == << >>

aside == <<query, threads>>

\* ----------------------------------------------------------- proxy state
DeadProxy == [live |-> FALSE, T |-> "void", d_mechanism |-> NULL]

NoCalls == << >>

\* what the operation just performed was and did: its name, the proxy it
\* ran on, its mechanism / proxy / count / address argument, the requests it
\* made to mechanisms, what it returned and how it ended
Event(op, self, m, rhs, n, p, calls, ret, outcome) ==
    [op |-> op, self |-> self, m |-> m, rhs |-> rhs, n |-> n, p |-> p,
     calls |-> calls, ret |-> ret, outcome |-> outcome, safe |-> FALSE]

\* the same for allocate, which also records whether its BSLS_ASSERT_SAFE
\* was compiled in
AllocEvent(self, n, safe, calls, ret, outcome) ==
    [Event("allocate", self, NULL, NoSlot, n, 0, calls, ret, outcome)
        EXCEPT !.safe = safe]

\* The run ends when an assertion fails (the assertion handler aborts) and
\* when a block is released to a mechanism that did not issue it, which the
\* contract of deallocate leaves undefined: the model follows the counting
\* mechanism through that call and no further.
Aborted == last.outcome \in {"assert", "foreign"}

Live(a) == proxies[a].live

\* allocator<T>::mechanism() / allocator<void>::mechanism()
mechanism(a) == proxies[a].d_mechanism

\* bslma::Default::defaultAllocator()
defaultAllocator == d_defaultAllocator

\* bslma::Default::allocator(basicAllocator)
Default_allocator(m) == IF m # NULL THEN m ELSE defaultAllocator

\* member initialisers of the four constructors
ctor_default_fixed == "M1"

ctor_default == defaultAllocator

ctor_mechanism_raw(m) == m

ctor_mechanism(m) == Default_allocator(m)

ctor_copy(rhs) == mechanism(rhs)

ctor_convert_default(rhs) == defaultAllocator

ctor_convert(rhs) == mechanism(rhs)

\* compiler generated operator=
assign_mechanism(rhs) == mechanism(rhs)

\* ------------------------------------------------------- free operators
OpEq_sameType(lhs, rhs) == proxies[lhs].T = proxies[rhs].T

OpEq(lhs, rhs) == mechanism(lhs) = mechanism(rhs)

OpNe(lhs, rhs) == ~ OpEq(lhs, rhs)

OpEqRaw(lhs, rhsPtr) == mechanism(lhs) = rhsPtr

\* the comparisons as they would go without the overloads for a raw
\* pointer: the pointer converts to a proxy first
OpNeRaw_viaProxy(lhs, rhsPtr) == mechanism(lhs) # ctor_mechanism(rhsPtr)

OpNeRaw(lhs, rhsPtr) == ~ OpEqRaw(lhs, rhsPtr)

RawOpEq_viaProxy(lhsPtr, rhs) == ctor_mechanism(lhsPtr) = mechanism(rhs)

RawOpEq(lhsPtr, rhs) == lhsPtr = mechanism(rhs)

RawOpNe(lhsPtr, rhs) == ~ RawOpEq(lhsPtr, rhs)

\* -------------------------------------------------------------- max_size
BSLMA_SIZE_IS_SIGNED == sizeIsSigned

\* ~std::size_t(0) / (BSLMA_SIZE_IS_SIGNED ? 2 : 1) where std::size_t has
\* N bits
MaxNumBytes_unhalved(N) == 2 ^ N - 1

MaxNumBytes(N) == (2 ^ N - 1) \div (IF BSLMA_SIZE_IS_SIGNED THEN 2 ELSE 1)

MAX_NUM_BYTES == MaxNumBytes(Width)

\* std::size_t(MAX_NUM_BYTES) / sizeof(T) for an element type of s bytes
MAX_NUM_ELEMENTS_roundedUp(N, s) == (MaxNumBytes(N) + s - 1) \div s

MAX_NUM_ELEMENTS(N, s) == MaxNumBytes(N) \div s

max_size(T) == MAX_NUM_ELEMENTS(Width, sizeof(T))

\* n * s in N-bit std::size_t arithmetic
ByteCountAt(N, n, s) == (n * s) % 2 ^ N

\* n * sizeof(T) in std::size_t arithmetic
ByteCount(n, T) == ByteCountAt(Width, n, sizeof(T))

\* bslma::Allocator::size_type(x): same width, signed on some platforms
ToMechSizeAt(N, x) ==
    IF BSLMA_SIZE_IS_SIGNED /\ x >= 2 ^ (N - 1) THEN x - 2 ^ N ELSE x

ToMechSize(x) == ToMechSizeAt(Width, x)

\* ------------------------------------------------------------- the heap
UsedAddrs == {b.addr : b \in heap}

BlockAt(p) == CHOOSE b \in heap : b.addr = p

IssuedBy(m) == {b \in heap : b.issuer = m}

Call(m, op, arg, reply) == [mech |-> m, op |-> op, arg |-> arg, reply |-> reply]

\* ---------------------------------------------------------- the registry
SetDefault(m) ==
    /\ ~ Aborted
    /\ m # d_defaultAllocator
    /\ d_defaultAllocator' = m
    /\ last' = Event("setDefault", NoSlot, m, NoSlot, 0, 0, NoCalls, 0, "ok")
    /\ UNCHANGED <<proxies, d_blocksOutstanding, heap, objects, throws,
                   disturbed, sizeIsSigned, aside>>

\* ---------------------------------------------------------- constructors
Bind(a, T, m) ==
    proxies' = [proxies EXCEPT ![a] = [live |-> TRUE, T |-> T, d_mechanism |-> m]]

DefaultCtor(a, T) ==
    /\ ~ Aborted
    /\ ~ Live(a)
    /\ Bind(a, T, ctor_default)
    /\ last' = Event("ctorDefault", a, NULL, NoSlot, 0, 0, NoCalls, 0, "ok")
    /\ UNCHANGED <<d_defaultAllocator, d_blocksOutstanding, heap, objects,
                   throws, disturbed, sizeIsSigned, aside>>

MechCtor(a, T, m) ==
    /\ ~ Aborted
    /\ ~ Live(a)
    /\ Bind(a, T, ctor_mechanism(m))
    /\ last' = Event("ctorMechanism", a, m, NoSlot, 0, 0, NoCalls, 0, "ok")
    /\ UNCHANGED <<d_defaultAllocator, d_blocksOutstanding, heap, objects,
                   throws, disturbed, sizeIsSigned, aside>>

CopyCtor(a, rhs) ==
    /\ ~ Aborted
    /\ ~ Live(a)
    /\ Live(rhs)
    /\ Bind(a, proxies[rhs].T, ctor_copy(rhs))
    /\ last' = Event("ctorCopy", a, NULL, rhs, 0, 0, NoCalls, 0, "ok")
    /\ UNCHANGED <<d_defaultAllocator, d_blocksOutstanding, heap, objects,
                   throws, disturbed, sizeIsSigned, aside>>

ConvertCtor(a, T, rhs) ==
    /\ ~ Aborted
    /\ ~ Live(a)
    /\ Live(rhs)
    /\ T # proxies[rhs].T
    /\ Bind(a, T, ctor_convert(rhs))
    /\ last' = Event("ctorConvert", a, NULL, rhs, 0, 0, NoCalls, 0, "ok")
    /\ UNCHANGED <<d_defaultAllocator, d_blocksOutstanding, heap, objects,
                   throws, disturbed, sizeIsSigned, aside>>

\* a = rhs; a proxy of another element type converts implicitly first
Assign(a, rhs) ==
    /\ ~ Aborted
    /\ Live(a)
    /\ Live(rhs)
    /\ a # rhs
    /\ proxies' = [proxies EXCEPT ![a].d_mechanism = assign_mechanism(rhs)]
    /\ last' = Event("assign", a, NULL, rhs, 0, 0, NoCalls, 0, "ok")
    /\ UNCHANGED <<d_defaultAllocator, d_blocksOutstanding, heap, objects,
                   throws, disturbed, sizeIsSigned, aside>>

\* ~allocator() as it would be if the proxy owned what it is bound to
Destroy_owning(a) ==
    /\ ~ Aborted
    /\ Live(a)
    /\ proxies' = [proxies EXCEPT ![a] = DeadProxy]
    /\ heap' = heap \ IssuedBy(mechanism(a))
    /\ d_blocksOutstanding' =
           [d_blocksOutstanding EXCEPT ![mechanism(a)] = 0]
    /\ last' = Event("dtor", a, NULL, NoSlot, 0, 0, NoCalls, 0, "ok")
    /\ UNCHANGED <<d_defaultAllocator, objects, throws, disturbed,
                   sizeIsSigned, aside>>

\* ~allocator()
Destroy(a) ==
    /\ ~ Aborted
    /\ Live(a)
    /\ proxies' = [proxies EXCEPT ![a] = DeadProxy]
    /\ last' = Event("dtor", a, NULL, NoSlot, 0, 0, NoCalls, 0, "ok")
    /\ UNCHANGED <<d_defaultAllocator, d_blocksOutstanding, heap, objects,
                   throws, disturbed, sizeIsSigned, aside>>

\* -------------------------------------------- allocate and deallocate
\* the request allocator<T>::allocate makes: d_mechanism->allocate(
\* bslma::Allocator::size_type(n * sizeof(T)))
allocate_request_count(a, n) ==
    [mech |-> proxies[a].d_mechanism, size |-> ToMechSize(n % SizeMod)]

allocate_request_default(a, n) ==
    [mech |-> defaultAllocator,
     size |-> ToMechSize(ByteCount(n, proxies[a].T))]

allocate_request(a, n) ==
    [mech |-> proxies[a].d_mechanism,
     size |-> ToMechSize(ByteCount(n, proxies[a].T))]

\* the request allocator<T>::deallocate makes: d_mechanism->deallocate(p)
deallocate_request_default(a, p, n) ==
    [mech |-> defaultAllocator, addr |-> p]

deallocate_request(a, p, n) ==
    [mech |-> proxies[a].d_mechanism, addr |-> p]

\* BSLS_ASSERT_SAFE(n <= this->max_size()): checked only where the call is
\* compiled with safe assertions enabled
AssertSafeFails_compiledOut(a, n, safe) == FALSE

AssertSafeFails(a, n, safe) == safe /\ ~ (n <= max_size(proxies[a].T))

\* the builds a call to allocate is followed in: where the asserted condition
\* holds, both builds run the same statements and one stands for the two
SafeBuilds(a, n) ==
    IF n <= max_size(proxies[a].T) THEN {FALSE} ELSE BOOLEAN

\* the failure signal operator new raises: std::bad_alloc
BadAlloc == "throw"

\* how a signal raised inside d_mechanism->allocate leaves
\* allocator<T>::allocate, which has no handler: as it was raised
allocate_unwind_caught(signal) == "ok"

allocate_unwind(signal) == signal

\* my_CountingAllocator::allocate: ++d_blocksOutstanding, then operator new,
\* which returns a fresh address or throws std::bad_alloc
\* return operator new(size), on behalf of allocate(n) of proxy a
OperatorNew(a, n, safe, req) ==
    \/ \E p \in Addrs \ UsedAddrs :
         /\ heap' = heap \cup {[addr |-> p, issuer |-> req.mech]}
         /\ last' = AllocEvent(a, n, safe,
                          <<Call(req.mech, "allocate", req.size, p)>>,
                          p, "ok")
         /\ UNCHANGED <<throws, disturbed>>
    \/ /\ throws < MaxThrows
       /\ throws' = throws + 1
       /\ disturbed' = disturbed \cup {req.mech}
       /\ last' = AllocEvent(a, n, safe,
                        <<Call(req.mech, "allocate", req.size, 0)>>,
                        0, allocate_unwind(BadAlloc))
       /\ UNCHANGED heap

CountingAllocate(a, n, safe, req) ==
    /\ d_blocksOutstanding' =
           [d_blocksOutstanding EXCEPT ![req.mech] = @ + 1]
    /\ OperatorNew(a, n, safe, req)

Allocate(a, n, hint, safe) ==
    /\ ~ Aborted
    /\ Live(a)
    /\ proxies[a].T # "void"
    /\ IF AssertSafeFails(a, n, safe)
       THEN /\ last' = AllocEvent(a, n, safe, NoCalls, 0, "assert")
            /\ UNCHANGED <<d_blocksOutstanding, heap, throws, disturbed>>
       ELSE CountingAllocate(a, n, safe, allocate_request(a, n))
    /\ UNCHANGED <<d_defaultAllocator, proxies, objects, sizeIsSigned, aside>>

\* my_CountingAllocator::deallocate: --d_blocksOutstanding, then operator
\* delete, which returns the block at the address to the global heap
\* operator delete(address), on behalf of deallocate(p, n) of proxy a
OperatorDelete(a, n, req) ==
    LET b == BlockAt(req.addr) IN
    /\ heap' = heap \ {b}
    /\ objects' = [objects EXCEPT ![req.addr] = NoObj]
    /\ disturbed' = IF b.issuer = req.mech
                    THEN disturbed
                    ELSE disturbed \cup {b.issuer, req.mech}
    /\ last' = Event("deallocate", a, NULL, NoSlot, 0, req.addr,
                     <<Call(req.mech, "deallocate", req.addr, 0)>>, 0,
                     IF b.issuer = req.mech THEN "ok" ELSE "foreign")

CountingDeallocate(a, n, req) ==
    /\ d_blocksOutstanding' =
           [d_blocksOutstanding EXCEPT ![req.mech] = @ - 1]
    /\ OperatorDelete(a, n, req)

Deallocate(a, p, n) ==
    /\ ~ Aborted
    /\ Live(a)
    /\ proxies[a].T # "void"
    /\ p \in UsedAddrs
    /\ CountingDeallocate(a, n, deallocate_request(a, p, n))
    /\ UNCHANGED <<d_defaultAllocator, proxies, throws, sizeIsSigned, aside>>

\* ------------------------------------------------ construct and destroy
Construct_viaMechanism(a, p, val) ==
    /\ ~ Aborted
    /\ Live(a)
    /\ proxies[a].T # "void"
    /\ p \in UsedAddrs
    /\ objects[p] = NoObj
    /\ objects' = [objects EXCEPT ![p] = val]
    /\ d_blocksOutstanding' =
           [d_blocksOutstanding EXCEPT ![mechanism(a)] = @ + 1]
    /\ last' = Event("construct", a, NULL, NoSlot, 0, p,
                     <<Call(mechanism(a), "allocate", sizeof(proxies[a].T), p)>>,
                     0, "ok")
    /\ UNCHANGED <<d_defaultAllocator, proxies, heap, throws, disturbed,
                   sizeIsSigned, aside>>

\* new(static_cast<void*>(p)) T(val)
Construct(a, p, val) ==
    /\ ~ Aborted
    /\ Live(a)
    /\ proxies[a].T # "void"
    /\ p \in UsedAddrs
    /\ objects[p] = NoObj
    /\ objects' = [objects EXCEPT ![p] = val]
    /\ last' = Event("construct", a, NULL, NoSlot, 0, p, NoCalls, 0, "ok")
    /\ UNCHANGED <<d_defaultAllocator, proxies, d_blocksOutstanding, heap,
                   throws, disturbed, sizeIsSigned, aside>>

\* p->~T()
DestroyObj(a, p) ==
    /\ ~ Aborted
    /\ Live(a)
    /\ proxies[a].T # "void"
    /\ p \in UsedAddrs
    /\ objects[p] # NoObj
    /\ objects' = [objects EXCEPT ![p] = NoObj]
    /\ last' = Event("destroy", a, NULL, NoSlot, 0, p, NoCalls, 0, "ok")
    /\ UNCHANGED <<d_defaultAllocator, proxies, d_blocksOutstanding, heap,
                   throws, disturbed, sizeIsSigned, aside>>

Init ==
    /\ d_defaultAllocator \in Mechs
    /\ proxies = [a \in Slots |-> DeadProxy]
    /\ d_blocksOutstanding = [m \in Mechs |-> 0]
    /\ heap = {}
    /\ objects = [p \in Addrs |-> NoObj]
    /\ throws = 0
    /\ disturbed = {}
    /\ sizeIsSigned \in BOOLEAN
    /\ last = Event("init", NoSlot, NULL, NoSlot, 0, 0, NoCalls, 0, "ok")
    /\ query = NoQuery
    /\ threads = NoThreads

Next ==
    \/ \E m \in Mechs : SetDefault(m)
    \/ \E a \in Slots, T \in ElemTypes : DefaultCtor(a, T)
    \/ \E a \in Slots, T \in ElemTypes, m \in Mechs \cup {NULL} : MechCtor(a, T, m)
    \/ \E a \in Slots, rhs \in Slots : CopyCtor(a, rhs)
    \/ \E a \in Slots, T \in ElemTypes, rhs \in Slots : ConvertCtor(a, T, rhs)
    \/ \E a \in Slots, rhs \in Slots : Assign(a, rhs)
    \/ \E a \in Slots : Destroy(a)
    \/ \E a \in Slots, n \in Counts, hint \in Hints :
          \E safe \in SafeBuilds(a, n) : Allocate(a, n, hint, safe)
    \/ \E a \in Slots, p \in Addrs, n \in DeallocCounts : Deallocate(a, p, n)
    \/ \E a \in Slots, p \in Addrs, val \in Values : Construct(a, p, val)
    \/ \E a \in Slots, p \in Addrs : DestroyObj(a, p)

Spec == Init /\ [][Next]_vars

\* ================================================================ claims
LiveSlots == {a \in Slots : Live(a)}

\* C1: two proxies, over any element types (void included), compare equal
\* exactly when they are bound to the identical mechanism object; two proxies
\* of one type bound to distinct mechanisms compare unequal.
C1_EqualityIsMechanismIdentity ==
    \A a \in LiveSlots, b \in LiveSlots :
        /\ OpEq(a, b) <=> (proxies[a].d_mechanism = proxies[b].d_mechanism)
        /\ (/\ proxies[a].T = proxies[b].T
            /\ proxies[a].d_mechanism # proxies[b].d_mechanism) => ~ OpEq(a, b)

C1_Witness ==
    \E a \in LiveSlots, b \in LiveSlots :
        /\ proxies[a].T = proxies[b].T
        /\ proxies[a].d_mechanism # proxies[b].d_mechanism
        /\ ~ OpEq(a, b)

\* C2: a proxy of any element type constructed from a mechanism pointer m is
\* bound to m when m is not null, and to the default mechanism installed at
\* that moment when m is null.
C2_MechanismCtorBinds ==
    [][\A a \in Slots :
          (last'.op = "ctorMechanism" /\ last'.self = a) =>
              /\ Live(a)'
              /\ mechanism(a)' = IF last'.m # NULL THEN last'.m
                                 ELSE d_defaultAllocator]_vars

C2_Witness ==
    /\ last.op = "ctorMechanism"
    /\ last.m = NULL
    /\ proxies[last.self].T = "void"
    /\ mechanism(last.self) = d_defaultAllocator

\* C3: every proxy that exists is bound to a mechanism, never to null,
\* whatever constructions, copies, conversions and assignments came before
\* (the registry's default is never null).
C3_MechanismNeverNull ==
    /\ d_defaultAllocator \in Mechs
    /\ \A a \in LiveSlots : mechanism(a) # NULL /\ mechanism(a) \in Mechs

C3_Witness ==
    /\ last.op = "assign"
    /\ \A a \in Slots : Live(a) /\ mechanism(a) # NULL

\* C4: copy construction and converting construction bind the new proxy to
\* the mechanism of the source, so that the two compare equal, and leave the
\* source as it was; a chain of conversions is a sequence of such steps.
C4_CopyAndConvertPreserve ==
    [][\A a \in Slots, r \in Slots :
          (/\ last'.op \in {"ctorCopy", "ctorConvert"}
           /\ last'.self = a
           /\ last'.rhs = r) =>
              /\ mechanism(a)' = mechanism(r)
              /\ OpEq(a, r)'
              /\ proxies'[r] = proxies[r]]_vars

C4_Witness ==
    /\ last.op = "ctorConvert"
    /\ proxies[last.self].T = "void"
    /\ proxies[last.rhs].T = "int"
    /\ mechanism(last.self) = mechanism(last.rhs)
    /\ mechanism(last.self) # d_defaultAllocator

\* C5: a default-constructed proxy is bound to the default mechanism that is
\* installed when it is constructed; afterwards the binding of a proxy changes
\* only when the proxy is assigned to, in particular not when the registry's
\* default changes.
C5_DefaultCtorBindsOnce ==
    [][\A a \in Slots :
          /\ (last'.op = "ctorDefault" /\ last'.self = a) =>
                 mechanism(a)' = d_defaultAllocator
          /\ (Live(a) /\ Live(a)' /\ mechanism(a)' # mechanism(a)) =>
                 (last'.op = "assign" /\ last'.self = a)
          /\ last'.op = "setDefault" => proxies' = proxies]_vars

C5_Witness ==
    /\ last.op = "setDefault"
    /\ \E a \in LiveSlots : mechanism(a) # d_defaultAllocator

\* C6: allocate(n, hint) with n <= max_size() makes one allocation request,
\* to the proxy's own mechanism and to no other, for exactly n * sizeof(T)
\* bytes, and returns what the mechanism returned; the mechanism's counter of
\* outstanding blocks rises by one whatever n is, and the hint changes nothing.
C6_AllocateForwardsOnce ==
    [][(/\ last'.op = "allocate"
        /\ last'.n <= max_size(proxies[last'.self].T)) =>
           LET a == last'.self
               n == last'.n
           IN  /\ Len(last'.calls) = 1
               /\ last'.calls[1].mech = mechanism(a)
               /\ last'.calls[1].op = "allocate"
               /\ last'.calls[1].arg = n * sizeof(proxies[a].T)
               /\ last'.outcome \in {"ok", "throw"}
               /\ last'.outcome = "ok" =>
                      /\ last'.ret = last'.calls[1].reply
                      /\ heap' = heap \cup {[addr |-> last'.ret,
                                             issuer |-> mechanism(a)]}
                      /\ last'.ret \notin UsedAddrs
               /\ d_blocksOutstanding' =
                      [d_blocksOutstanding EXCEPT ![mechanism(a)] = @ + 1]
               /\ proxies' = proxies
               /\ \A hint \in Hints : Allocate(a, n, hint, last'.safe)]_vars

C6_Witness ==
    /\ last.op = "allocate"
    /\ last.outcome = "ok"
    /\ proxies[last.self].T = "int"
    /\ last.n = 1
    /\ last.calls = <<Call(mechanism(last.self), "allocate", 4, last.ret)>>
    /\ mechanism(last.self) # d_defaultAllocator
    /\ d_blocksOutstanding[mechanism(last.self)] = 2

\* C7: deallocate(p, n) makes one release request, to the proxy's own
\* mechanism, with the address p, and does the same whatever n is.
C7_DeallocateForwardsOnce ==
    [][\A a \in Slots, p \in Addrs :
          (last'.op = "deallocate" /\ last'.self = a /\ last'.p = p) =>
              /\ last'.calls = <<Call(mechanism(a), "deallocate", p, 0)>>
              /\ proxies' = proxies
              /\ \A n \in DeallocCounts : Deallocate(a, p, n)]_vars

C7_Witness ==
    /\ last.op = "deallocate"
    /\ last.outcome = "ok"
    /\ last.calls = <<Call(mechanism(last.self), "deallocate", last.p, 0)>>
    /\ mechanism(last.self) # d_defaultAllocator

\* C8: a mechanism that is only ever used through matched allocate /
\* deallocate pairs counts exactly the blocks it has issued and not yet taken
\* back; an allocate followed by the deallocate of its block on the same
\* proxy brings the counter back to where it was.
MatchedPair ==
    /\ last.op = "allocate"
    /\ last.outcome = "ok"
    /\ last'.op = "deallocate"
    /\ last'.self = last.self
    /\ last'.p = last.ret

C8_AccountingIsOutstandingBlocks ==
    /\ [](\A m \in Mechs \ disturbed :
              d_blocksOutstanding[m] = Cardinality(IssuedBy(m)))
    /\ [][MatchedPair =>
              /\ last'.outcome = "ok"
              /\ d_blocksOutstanding' =
                     [d_blocksOutstanding EXCEPT
                          ![mechanism(last.self)] = @ - 1]
              /\ heap' = heap \ {[addr |-> last.ret,
                                  issuer |-> mechanism(last.self)]}
              /\ [addr |-> last.ret, issuer |-> mechanism(last.self)] \in heap
              /\ disturbed' = disturbed]_vars

C8_Witness ==
    /\ last.op = "deallocate"
    /\ last.outcome = "ok"
    /\ disturbed = {}
    /\ d_blocksOutstanding[mechanism(last.self)] = 1
    /\ Cardinality(IssuedBy(mechanism(last.self))) = 1

\* C9: when the block a proxy a has just allocated is deallocated through a
\* proxy b of any element type, the release goes to the mechanism that issued
\* the block exactly when a == b; when a != b it goes to a mechanism that did
\* not issue it.
C9_ReleaseReachesIssuerIffEqual ==
    [][\A a \in Slots, b \in Slots :
          (/\ last.op = "allocate"
           /\ last.outcome = "ok"
           /\ last.self = a
           /\ last'.op = "deallocate"
           /\ last'.self = b
           /\ last'.p = last.ret) =>
              LET issuer == BlockAt(last.ret).issuer
                  receiver == last'.calls[1].mech
              IN  /\ (receiver = issuer) <=> OpEq(a, b)
                  /\ OpNe(a, b) => /\ receiver # issuer
                                   /\ last'.outcome = "foreign"]_vars

C9_Witness ==
    /\ last.op = "deallocate"
    /\ last.outcome = "foreign"
    /\ \E a \in LiveSlots : OpNe(a, last.self)

\* C10: construct and destroy make no request to any mechanism and leave the
\* proxies, the counters and the set of allocated blocks as they were, so
\* that after construct followed by destroy all of these are as before.
C10_ConstructDestroyFrame ==
    [][last'.op \in {"construct", "destroy"} =>
          /\ last'.calls = NoCalls
          /\ UNCHANGED <<proxies, d_defaultAllocator, d_blocksOutstanding,
                         heap, throws, disturbed>>]_vars

C10_Witness ==
    /\ last.op = "destroy"
    /\ last.p \in UsedAddrs
    /\ objects[last.p] = NoObj
    /\ last.calls = NoCalls

\* ============================================ max_size as a function
MaxBits == 4        \* widest std::size_t a size query is made for
MaxElemSize == 5    \* largest sizeof(T) a size query is made for

Bits == 1 .. MaxBits
ElemSizes == 1 .. MaxElemSize

\* the state a query is made in: no proxy operation has run
Untouched ==
    /\ d_defaultAllocator = "M1"
    /\ proxies = [a \in Slots |-> DeadProxy]
    /\ d_blocksOutstanding = [m \in Mechs |-> 0]
    /\ heap = {}
    /\ objects = [p \in Addrs |-> NoObj]
    /\ throws = 0
    /\ disturbed = {}
    /\ last = Event("init", NoSlot, NULL, NoSlot, 0, 0, NoCalls, 0, "ok")
    /\ threads = NoThreads

\* a.max_size() asked of a proxy of an s-byte element type bound to
\* mechanism mech, where std::size_t has N bits; n is the count then passed
\* to allocate
SizeQuery(fn, N, s, mech, n) ==
    [fn |-> fn, N |-> N, s |-> s, mech |-> mech, n |-> n,
     done |-> FALSE, bytes |-> 0, result |-> 0]

InitSize ==
    /\ Untouched
    /\ sizeIsSigned \in BOOLEAN
    /\ query \in {SizeQuery("max_size", N, s, mech, 0) :
                      N \in Bits, s \in ElemSizes, mech \in Mechs}
                 \cup UNION {{SizeQuery("allocate_size", N, s, mech, n) :
                                 s \in ElemSizes, mech \in Mechs,
                                 n \in 0 .. 2 ^ N - 1} : N \in Bits}

MaxSizeQuery ==
    /\ query.fn = "max_size"
    /\ ~ query.done
    /\ query' = [query EXCEPT !.done = TRUE,
                              !.result = MAX_NUM_ELEMENTS(query.N, query.s)]
    /\ UNCHANGED <<d_defaultAllocator, proxies, d_blocksOutstanding, heap,
                   objects, throws, disturbed, sizeIsSigned, last, threads>>

\* the argument allocate(n) passes on:
\* bslma::Allocator::size_type(n * sizeof(T)), for any n a size_type holds
AllocateSizeQuery ==
    /\ query.fn = "allocate_size"
    /\ ~ query.done
    /\ LET bytes == ByteCountAt(query.N, query.n, query.s) IN
       query' = [query EXCEPT !.done = TRUE,
                              !.bytes = bytes,
                              !.result = ToMechSizeAt(query.N, bytes)]
    /\ UNCHANGED <<d_defaultAllocator, proxies, d_blocksOutstanding, heap,
                   objects, throws, disturbed, sizeIsSigned, last, threads>>

NextSize ==
    \/ MaxSizeQuery
    \/ AllocateSizeQuery

SpecSize == InitSize /\ [][NextSize]_vars

\* C11: for every element size s >= 1 and every width N, max_size() is
\* floor((2^N - 1) / s) where the mechanism's count type is unsigned and half
\* of that, rounded down, where it is signed; for s = 1 it is 2^N - 1, or
\* floor((2^N - 1) / 2) when signed; the mechanism the proxy is bound to has
\* no part in the value.
C11_MaxSizeFormula ==
    (query.fn = "max_size" /\ query.done) =>
        LET all == 2 ^ query.N - 1 IN
        /\ query.result = IF sizeIsSigned
                          THEN (all \div query.s) \div 2
                          ELSE all \div query.s
        /\ query.s = 1 =>
               query.result = IF sizeIsSigned THEN all \div 2 ELSE all

C11_Witness ==
    /\ query.fn = "max_size"
    /\ query.done
    /\ sizeIsSigned
    /\ query.s > 1
    /\ query.result > 0
    /\ query.result * query.s * 2 < 2 ^ query.N - 2

\* C17: for every element size s >= 1 and width N, v = max_size() is the
\* largest count whose byte total fits the usable range B (2^N - 1 for an
\* unsigned mechanism count type, floor((2^N - 1) / 2) for a signed one):
\* v * s <= B < (v + 1) * s. So for every n <= max_size() the product
\* n * sizeof(T) formed modulo 2^N in allocate is the true product, and as a
\* value of the mechanism's N-bit count type it is that product, not negative.
C17_MaxSizeIsLargestFit ==
    LET B == IF sizeIsSigned THEN (2 ^ query.N - 1) \div 2
                             ELSE 2 ^ query.N - 1
    IN  /\ (query.fn = "max_size" /\ query.done) =>
               /\ query.result * query.s <= B
               /\ (query.result + 1) * query.s > B
        /\ (/\ query.fn = "allocate_size"
            /\ query.done
            /\ query.n <= MAX_NUM_ELEMENTS(query.N, query.s)) =>
               /\ query.bytes = query.n * query.s
               /\ query.result = query.n * query.s
               /\ query.result >= 0
               /\ query.result <= B

C17_Witness ==
    /\ query.fn = "allocate_size"
    /\ query.done
    /\ sizeIsSigned
    /\ query.s > 1
    /\ query.n = MAX_NUM_ELEMENTS(query.N, query.s)
    /\ query.result = query.n * query.s
    /\ query.result > 0
    /\ (query.n + 1) * query.s >= 2 ^ (query.N - 1)

\* ============================================== address as a function
MaxObjAddr == 3     \* storage addresses an object can have

ObjAddrs == 1 .. MaxObjAddr
NullPtr == 0
CvOf(isConst) == IF isConst THEN "const" ELSE ""

\* a pointer value: the address it holds, the type it points to and that
\* type's qualifiers
Ptr(addr, pointee, cv) == [addr |-> addr, pointee |-> pointee, cv |-> cv]

\* an object x of the element type: where its storage is, whether its type
\* declares operator& and, if so, the address that operator returns (any
\* pointer value, null included); the built-in operator returns the storage
\* address
ElemObjects ==
    {[at |-> at, overloads |-> FALSE, amp |-> at] : at \in ObjAddrs}
        \cup {[at |-> at, overloads |-> TRUE, amp |-> amp] :
                  at \in ObjAddrs, amp \in ObjAddrs \cup {NullPtr}}

\* &(OBJ): overload resolution picks the type's own operator& when it has one
AmpersandOf(x, cv) ==
    IF x.overloads THEN Ptr(x.amp, "T", cv) ELSE Ptr(x.at, "T", cv)

\* the casts of Util::addressOf, innermost first
ReinterpretAsChar(x) == [at |-> x.at, overloads |-> FALSE, amp |-> x.at]

BuiltinAddressOfChar(c) == Ptr(c.at, "char", "const volatile")

ConstCastToCharPtr(p) == Ptr(p.addr, "char", "")

StaticCastToVoidPtr(p) == Ptr(p.addr, "void", "")

StaticCastToTypePtr(p, cv) == Ptr(p.addr, "T", cv)

\* bsls::Util::addressOf(obj), BSLS_TYPE being T or const T
Util_addressOf(x, cv) ==
    StaticCastToTypePtr(
        StaticCastToVoidPtr(
            ConstCastToCharPtr(BuiltinAddressOfChar(ReinterpretAsChar(x)))),
        cv)

\* BSLS_UTIL_ADDRESSOF(OBJ): Util::addressOf under BSLS_PLATFORM_CMP_MSVC,
\* (&(OBJ)) everywhere else
BSLS_UTIL_ADDRESSOF_ampersand(msvc, x, cv) == AmpersandOf(x, cv)

BSLS_UTIL_ADDRESSOF(msvc, x, cv) ==
    IF msvc THEN Util_addressOf(x, cv) ELSE AmpersandOf(x, cv)

\* allocator<T>::address(reference x) and address(const_reference x)
address(msvc, x) == BSLS_UTIL_ADDRESSOF(msvc, x, CvOf(FALSE))

address_const(msvc, x) == BSLS_UTIL_ADDRESSOF(msvc, x, CvOf(TRUE))

AddressQuery(msvc, isConst, x) ==
    [fn |-> "address", msvc |-> msvc, isConst |-> isConst, x |-> x,
     done |-> FALSE, result |-> Ptr(NullPtr, "void", "")]

InitAddress ==
    /\ Untouched
    /\ sizeIsSigned = FALSE
    /\ query \in {AddressQuery(msvc, isConst, x) :
                      msvc \in BOOLEAN, isConst \in BOOLEAN, x \in ElemObjects}

AddressCall ==
    /\ query.fn = "address"
    /\ ~ query.done
    /\ ~ query.isConst
    /\ query' = [query EXCEPT !.done = TRUE,
                              !.result = address(query.msvc, query.x)]
    /\ UNCHANGED <<d_defaultAllocator, proxies, d_blocksOutstanding, heap,
                   objects, throws, disturbed, sizeIsSigned, last, threads>>

AddressConstCall ==
    /\ query.fn = "address"
    /\ ~ query.done
    /\ query.isConst
    /\ query' = [query EXCEPT !.done = TRUE,
                              !.result = address_const(query.msvc, query.x)]
    /\ UNCHANGED <<d_defaultAllocator, proxies, d_blocksOutstanding, heap,
                   objects, throws, disturbed, sizeIsSigned, last, threads>>

NextAddress ==
    \/ AddressCall
    \/ AddressConstCall

SpecAddress == InitAddress /\ [][NextAddress]_vars

C13_FailureSurfacesUnchanged ==
    /\ [][(last'.op = "allocate" /\ throws' = throws + 1) =>
              /\ last'.outcome = BadAlloc
              /\ last'.ret = 0
              /\ Len(last'.calls) = 1
              /\ last'.calls[1].mech = mechanism(last'.self)
              /\ proxies' = proxies
              /\ heap' = heap
              /\ objects' = objects
              /\ d_defaultAllocator' = d_defaultAllocator]_vars
    /\ [][(/\ last.op = "allocate"
           /\ last.outcome = BadAlloc
           /\ last'.op = "allocate"
           /\ last'.self = last.self
           /\ Len(last'.calls) = 1) =>
              last'.calls[1].mech = last.calls[1].mech]_vars

C13_Witness ==
    /\ last.op = "allocate"
    /\ last.outcome = BadAlloc
    /\ heap # {}
    /\ mechanism(last.self) = last.calls[1].mech
    /\ d_blocksOutstanding[mechanism(last.self)]
           > Cardinality(IssuedBy(mechanism(last.self)))

RawPtrs == Mechs \cup {NULL}

\* C14: for every proxy a and raw mechanism pointer p, null included, a == p
\* and p == a both are exactly (a.mechanism() == p), so the two orders agree;
\* no proxy equals the null pointer, and a proxy just constructed from the
\* null pointer equals the default mechanism instead.
C14_RawEqualityIsMechanismIdentity ==
    /\ \A a \in LiveSlots, p \in RawPtrs :
           /\ OpEqRaw(a, p) <=> (proxies[a].d_mechanism = p)
           /\ RawOpEq(p, a) <=> (proxies[a].d_mechanism = p)
           /\ OpEqRaw(a, p) <=> RawOpEq(p, a)
    /\ \A a \in LiveSlots : ~ OpEqRaw(a, NULL) /\ ~ RawOpEq(NULL, a)
    /\ (last.op = "ctorMechanism" /\ last.m = NULL) =>
           /\ ~ OpEqRaw(last.self, NULL)
           /\ ~ RawOpEq(NULL, last.self)
           /\ RawOpEq(d_defaultAllocator, last.self)

C14_Witness ==
    /\ last.op = "ctorMechanism"
    /\ last.m = NULL
    /\ ~ RawOpEq(NULL, last.self)
    /\ OpEqRaw(last.self, d_defaultAllocator)
    /\ \E b \in LiveSlots : ~ OpEqRaw(b, d_defaultAllocator)

\* C15: in each of the three comparison forms (proxy with proxy of any element
\* type, proxy with raw pointer, raw pointer with proxy) != is the negation
\* of == on the same operands, so it holds exactly when the mechanisms differ.
C15_NotEqualNegatesEqual ==
    /\ \A a \in LiveSlots, b \in LiveSlots :
           /\ OpNe(a, b) <=> ~ OpEq(a, b)
           /\ OpNe(a, b) <=> (proxies[a].d_mechanism # proxies[b].d_mechanism)
    /\ \A a \in LiveSlots, p \in RawPtrs :
           /\ OpNeRaw(a, p) <=> ~ OpEqRaw(a, p)
           /\ RawOpNe(p, a) <=> ~ RawOpEq(p, a)
           /\ OpNeRaw(a, p) <=> (proxies[a].d_mechanism # p)
           /\ RawOpNe(p, a) <=> (p # proxies[a].d_mechanism)

C15_Witness ==
    \E a \in LiveSlots, b \in LiveSlots :
        /\ proxies[a].T # proxies[b].T
        /\ ~ OpNe(a, b)
        /\ OpNeRaw(a, NULL)
        /\ \E p \in Mechs : RawOpNe(p, b)

\* C18: allocate(n) with n > max_size(): where BSLS_ASSERT_SAFE is compiled in,
\* the assertion fails before any request is made, and mechanisms, heap,
\* objects and bindings stay as they were; where it is not, nothing is
\* checked and one request goes to the proxy's mechanism for n * sizeof(T)
\* reduced modulo 2^Width (seen through the mechanism's count type, so as
\* that value less 2^Width where the type is signed and the top bit is set).
C18_OversizeAssertsOrWraps ==
    [][(/\ last'.op = "allocate"
        /\ last'.n > max_size(proxies[last'.self].T)) =>
           LET a == last'.self
               reduced == (last'.n * sizeof(proxies[a].T)) % (2 ^ Width)
           IN  IF last'.safe
               THEN /\ last'.outcome = "assert"
                    /\ last'.calls = NoCalls
                    /\ UNCHANGED <<d_blocksOutstanding, heap, objects,
                                   proxies, throws, disturbed,
                                   d_defaultAllocator>>
               ELSE /\ last'.outcome \in {"ok", BadAlloc}
                    /\ Len(last'.calls) = 1
                    /\ last'.calls[1].mech = mechanism(a)
                    /\ last'.calls[1].op = "allocate"
                    /\ last'.calls[1].arg % (2 ^ Width) = reduced
                    /\ last'.calls[1].arg =
                           IF sizeIsSigned /\ reduced >= 2 ^ (Width - 1)
                           THEN reduced - 2 ^ Width ELSE reduced
                    /\ d_blocksOutstanding' =
                           [d_blocksOutstanding EXCEPT ![mechanism(a)] = @ + 1]
      ]_vars

C18_Witness ==
    /\ last.op = "allocate"
    /\ last.safe
    /\ last.outcome = "assert"
    /\ last.n > max_size(proxies[last.self].T)
    /\ last.calls = NoCalls
    /\ d_blocksOutstanding[mechanism(last.self)] = 1
    /\ heap # {}

ProxyValueOps ==
    {"ctorDefault", "ctorMechanism", "ctorCopy", "ctorConvert", "assign",
     "dtor"}

\* C19: constructing, copying, converting, assigning and destroying a proxy
\* makes no request to any mechanism and touches no mechanism: every counter,
\* every outstanding block (those of the mechanism the proxy was bound to
\* before included), every object and the installed default stay as they
\* were, and no other proxy changes; after a = b, a.mechanism() is
\* b.mechanism(), a keeps its element type and b is unchanged.
C19_ProxyOwnsNothing ==
    [][last'.op \in ProxyValueOps =>
          /\ last'.calls = NoCalls
          /\ UNCHANGED <<heap, d_blocksOutstanding, objects, disturbed,
                         throws, d_defaultAllocator>>
          /\ \A b \in Slots \ {last'.self} : proxies'[b] = proxies[b]
          /\ last'.op = "assign" =>
                 /\ proxies'[last'.self].d_mechanism =
                        proxies[last'.rhs].d_mechanism
                 /\ proxies'[last'.self].d_mechanism =
                        proxies'[last'.rhs].d_mechanism
                 /\ proxies'[last'.self].T = proxies[last'.self].T
                 /\ proxies'[last'.self].live]_vars

C19_Witness ==
    /\ last.op = "assign"
    /\ \E m \in Mechs :
          /\ IssuedBy(m) # {}
          /\ d_blocksOutstanding[m] = Cardinality(IssuedBy(m))
          /\ \A a \in LiveSlots : mechanism(a) # m

\* ============================= two threads, each with its own proxy
MaxCalls == 2       \* calls one thread makes through its proxy

Threads == {"t1", "t2"}
ProxyOf(t) == IF t = "t1" THEN "p1" ELSE "p2"
ThreadCounts == {1}             \* the n the threads pass to allocate
NoRequest == [mech |-> NULL]

\* a thread before its first call: where it stands, the arguments and the
\* request of the call it is in, the counter value it has loaded, the blocks
\* it holds and the number of calls it has begun
ThreadStart ==
    [pc |-> "idle", n |-> 0, req |-> NoRequest, reg |-> 0, mine |-> {},
     calls |-> 0]

\* each thread has constructed its proxy from some mechanism; no block yet
InitThreads ==
    /\ d_defaultAllocator \in Mechs
    /\ proxies \in {[a \in Slots |->
                        [live |-> TRUE,
                         T |-> IF a = "p1" THEN "char" ELSE "int",
                         d_mechanism |-> ctor_mechanism(f[a])]] :
                    f \in [Slots -> Mechs]}
    /\ d_blocksOutstanding = [m \in Mechs |-> 0]
    /\ heap = {}
    /\ objects = [p \in Addrs |-> NoObj]
    /\ throws = 0
    /\ disturbed = {}
    /\ sizeIsSigned = FALSE
    /\ last = Event("init", NoSlot, NULL, NoSlot, 0, 0, NoCalls, 0, "ok")
    /\ query = NoQuery
    /\ threads = [t \in Threads |-> ThreadStart]

\* allocator<T>::allocate up to the call of d_mechanism->allocate: the thread
\* reads its own proxy's d_mechanism and forms the request
T_Allocate_rebinding(t, n) ==
    /\ threads[t].pc = "idle"
    /\ threads[t].calls < MaxCalls
    /\ threads' = [threads EXCEPT
                      ![t].pc = "allocate",
                      ![t].n = n,
                      ![t].req = allocate_request(ProxyOf(t), n),
                      ![t].calls = @ + 1]
    /\ proxies' = [proxies EXCEPT
                      ![ProxyOf(t)].d_mechanism = defaultAllocator]
    /\ UNCHANGED <<d_defaultAllocator, d_blocksOutstanding, heap,
                   objects, throws, disturbed, sizeIsSigned, last, query>>

T_Allocate(t, n) ==
    /\ threads[t].pc = "idle"
    /\ threads[t].calls < MaxCalls
    /\ threads' = [threads EXCEPT
                      ![t].pc = "allocate",
                      ![t].n = n,
                      ![t].req = allocate_request(ProxyOf(t), n),
                      ![t].calls = @ + 1]
    /\ UNCHANGED <<d_defaultAllocator, proxies, d_blocksOutstanding, heap,
                   objects, throws, disturbed, sizeIsSigned, last, query>>

\* allocator<T>::deallocate up to the call of d_mechanism->deallocate, for a
\* block the thread holds
T_Deallocate(t, p) ==
    /\ threads[t].pc = "idle"
    /\ threads[t].calls < MaxCalls
    /\ p \in threads[t].mine
    /\ threads' = [threads EXCEPT
                      ![t].pc = "deallocate",
                      ![t].req = deallocate_request(ProxyOf(t), p, 1),
                      ![t].mine = @ \ {p},
                      ![t].calls = @ + 1]
    /\ UNCHANGED <<d_defaultAllocator, proxies, d_blocksOutstanding, heap,
                   objects, throws, disturbed, sizeIsSigned, last, query>>

\* the thread is back in its caller, holding the block if it got one
Returned(t) ==
    threads' = [threads EXCEPT
                   ![t].pc = "idle",
                   ![t].mine = IF last'.op = "allocate" /\ last'.outcome = "ok"
                               THEN @ \cup {last'.ret} ELSE @]

\* a thread-safe mechanism: allocate and deallocate of the counting
\* mechanism, each run as one atomic step
T_MechAllocate(t) ==
    /\ threads[t].pc = "allocate"
    /\ CountingAllocate(ProxyOf(t), threads[t].n, FALSE, threads[t].req)
    /\ Returned(t)
    /\ UNCHANGED <<d_defaultAllocator, proxies, objects, sizeIsSigned, query>>

T_MechDeallocate(t) ==
    /\ threads[t].pc = "deallocate"
    /\ CountingDeallocate(ProxyOf(t), 1, threads[t].req)
    /\ Returned(t)
    /\ UNCHANGED <<d_defaultAllocator, proxies, throws, sizeIsSigned, query>>

NextThreadSafe ==
    \/ \E t \in Threads, n \in ThreadCounts : T_Allocate(t, n)
    \/ \E t \in Threads, p \in Addrs : T_Deallocate(t, p)
    \/ \E t \in Threads : T_MechAllocate(t)
    \/ \E t \in Threads : T_MechDeallocate(t)

SpecThreadSafe == InitThreads /\ [][NextThreadSafe]_vars

\* C16: with each thread using its own proxy and the mechanism's allocate and
\* release atomic, under every interleaving no proxy's binding ever changes
\* and the counter of every mechanism whose operator new has not failed
\* equals the number of its blocks allocated and not yet released.
C16_DistinctProxiesThreadSafe ==
    /\ [](\A m \in Mechs \ disturbed :
              d_blocksOutstanding[m] = Cardinality(IssuedBy(m)))
    /\ [][proxies' = proxies]_vars

C16_Witness ==
    /\ OpEq("p1", "p2")
    /\ threads["t1"].pc = "allocate"
    /\ threads["t2"].pc = "deallocate"
    /\ disturbed = {}
    /\ d_blocksOutstanding[mechanism("p1")] = 2
    /\ Cardinality(IssuedBy(mechanism("p1"))) = 2

\* ------------------ the counting mechanism of the usage example, as it is
\* ++d_blocksOutstanding and --d_blocksOutstanding on a plain int member: a
\* load, then a store of the loaded value plus or minus one, with nothing to
\* keep another thread from running between the two
R_IncrementLoad(t) ==
    /\ threads[t].pc = "allocate"
    /\ threads' = [threads EXCEPT
                      ![t].pc = "allocate_store",
                      ![t].reg = d_blocksOutstanding[threads[t].req.mech]]
    /\ UNCHANGED <<d_defaultAllocator, proxies, d_blocksOutstanding, heap,
                   objects, throws, disturbed, sizeIsSigned, last, query>>

R_IncrementStore_atomic(t) ==
    /\ threads[t].pc = "allocate_store"
    /\ d_blocksOutstanding' =
           [d_blocksOutstanding EXCEPT ![threads[t].req.mech] = @ + 1]
    /\ threads' = [threads EXCEPT ![t].pc = "allocate_new"]
    /\ UNCHANGED <<d_defaultAllocator, proxies, heap, objects, throws,
                   disturbed, sizeIsSigned, last, query>>

R_IncrementStore(t) ==
    /\ threads[t].pc = "allocate_store"
    /\ d_blocksOutstanding' =
           [d_blocksOutstanding EXCEPT
                ![threads[t].req.mech] = threads[t].reg + 1]
    /\ threads' = [threads EXCEPT ![t].pc = "allocate_new"]
    /\ UNCHANGED <<d_defaultAllocator, proxies, heap, objects, throws,
                   disturbed, sizeIsSigned, last, query>>

R_OperatorNew(t) ==
    /\ threads[t].pc = "allocate_new"
    /\ OperatorNew(ProxyOf(t), threads[t].n, FALSE, threads[t].req)
    /\ Returned(t)
    /\ UNCHANGED <<d_defaultAllocator, proxies, d_blocksOutstanding, objects,
                   sizeIsSigned, query>>

R_DecrementLoad(t) ==
    /\ threads[t].pc = "deallocate"
    /\ threads' = [threads EXCEPT
                      ![t].pc = "deallocate_store",
                      ![t].reg = d_blocksOutstanding[threads[t].req.mech]]
    /\ UNCHANGED <<d_defaultAllocator, proxies, d_blocksOutstanding, heap,
                   objects, throws, disturbed, sizeIsSigned, last, query>>

R_DecrementStore(t) ==
    /\ threads[t].pc = "deallocate_store"
    /\ d_blocksOutstanding' =
           [d_blocksOutstanding EXCEPT
                ![threads[t].req.mech] = threads[t].reg - 1]
    /\ threads' = [threads EXCEPT ![t].pc = "deallocate_delete"]
    /\ UNCHANGED <<d_defaultAllocator, proxies, heap, objects, throws,
                   disturbed, sizeIsSigned, last, query>>

R_OperatorDelete(t) ==
    /\ threads[t].pc = "deallocate_delete"
    /\ OperatorDelete(ProxyOf(t), 1, threads[t].req)
    /\ Returned(t)
    /\ UNCHANGED <<d_defaultAllocator, proxies, d_blocksOutstanding, throws,
                   sizeIsSigned, query>>

NextRacy ==
    \/ \E t \in Threads, n \in ThreadCounts : T_Allocate(t, n)
    \/ \E t \in Threads, p \in Addrs : T_Deallocate(t, p)
    \/ \E t \in Threads : R_IncrementLoad(t)
    \/ \E t \in Threads : R_IncrementStore(t)
    \/ \E t \in Threads : R_OperatorNew(t)
    \/ \E t \in Threads : R_DecrementLoad(t)
    \/ \E t \in Threads : R_DecrementStore(t)
    \/ \E t \in Threads : R_OperatorDelete(t)

SpecRacy == InitThreads /\ [][NextRacy]_vars

\* all calls have returned
Quiescent == \A t \in Threads : threads[t].pc = "idle"

\* C20: with two threads calling allocate or deallocate through their own
\* proxies bound to one counting mechanism, the proxy takes no lock, so a
\* thread's store of the counter writes the value it loaded plus or minus
\* one whatever another thread has stored since: where the counter has moved
\* in between, the store does not count the call on top of it and the other
\* thread's update is lost. The witness is the state the claim says exists:
\* every call has returned, operator new has never failed, and the counter
\* differs from the number of blocks allocated and not yet released.
C20_StoreOverwritesConcurrentUpdate ==
    [][\A t \in Threads :
          LET m == threads[t].req.mech
              step == IF threads[t].pc = "allocate_store" THEN 1 ELSE 0 - 1
          IN  (/\ threads[t].pc \in {"allocate_store", "deallocate_store"}
               /\ threads'[t].pc # threads[t].pc) =>
                  /\ d_blocksOutstanding'[m] = threads[t].reg + step
                  /\ threads[t].reg # d_blocksOutstanding[m] =>
                         d_blocksOutstanding'[m] #
                             d_blocksOutstanding[m] + step
                  /\ proxies' = proxies]_vars

C20_Witness ==
    /\ Quiescent
    /\ throws = 0
    /\ OpEq("p1", "p2")
    /\ d_blocksOutstanding[mechanism("p1")]
           # Cardinality(IssuedBy(mechanism("p1")))
====
